---- MODULE Spec2Model ----
(***************************************************************************)
(* rhts: the R binding (src/rust/src/hierarchy.rs, helpers.rs) of the      *)
(* hierarchical / grouped time-series engine hts_core.                     *)
(*                                                                         *)
(* The binding's own code (HtsSpec, Hts, from_robj, to_robj) is modelled   *)
(* from the source.  The engine it wraps (HierarchySpec,                   *)
(* HierarchicalTimeSeries) is not part of the source tree; it is modelled  *)
(* from spec.md sections 3-5 and carries the names the binding calls.      *)
(*                                                                         *)
(* Category values (state, city, sector) and periods are small naturals    *)
(* standing for the strings of the data; 0 is the "Total" marker.          *)
(***************************************************************************)
EXTENDS Integers, Sequences, FiniteSets, TLC

VARIABLES
    spec_obj,   \* the HtsSpec object held by the host session
    hts,        \* the Hts object held by the host session (or the Err of Hts::new)
    ret,        \* the value returned by the last call
    conv,       \* the argument / result of a direct conversion call (helpers.rs)
    par         \* the per-period workers of one aggregate_all() run

vars == <<spec_obj, hts, ret, conv, par>>

----------------------------------------------------------------------------
(* Bounds and input domains *)

MaxRows == 2            \* rows of an input data frame
MaxCols == 2            \* columns of a frame handed directly to a conversion

Codes   == {1, 2}       \* values of a hierarchy / group column
Quarters == {1, 2}      \* values of the time column
Total   == 0            \* marker of an aggregated-away dimension

ColNames == {"state", "city", "sector", "quarter", "gdp"}

\* the key and period of one observation
Obs == [state : Codes, city : Codes, sector : Codes, quarter : Quarters]

ObsSeqs == UNION {[1..n -> Obs] : n \in 0..MaxRows}

----------------------------------------------------------------------------
(* Generic helpers *)

RECURSIVE SumSeq(_)
SumSeq(s) == IF s = <<>> THEN 0 ELSE Head(s) + SumSeq(Tail(s))

Range(s) == {s[i] : i \in DOMAIN s}

RECURSIVE Pow(_, _)
Pow(b, e) == IF e = 0 THEN 1 ELSE b * Pow(b, e - 1)

\* the value of the i-th observation: distinct powers of two, so that a sum
\* identifies the observations it adds up
GdpAt(i) == Pow(2, i - 1)

\* distinct elements of a sequence, in order of first occurrence
RECURSIVE FirstSeen(_)
FirstSeen(s) ==
    IF s = <<>> THEN <<>>
    ELSE LET init == FirstSeen(SubSeq(s, 1, Len(s) - 1))
             last == s[Len(s)]
         IN  IF last \in Range(init) THEN init ELSE Append(init, last)

\* `x as i32` on a usize: the low 32 bits, read as two's complement
AsI32(x) == IF x <= 2147483647 THEN x ELSE ((x - 2147483647 - 1) % 2) - 2147483647 - 1

----------------------------------------------------------------------------
(* helpers.rs: host data frame <-> polars DataFrame *)

\* cell encodings: a polars null, and the values to_robj substitutes for it
Null      == -1
F64_NAN   == -2
EMPTY_STR == -3
I32_MIN   == -2147483647 - 1

\* column kinds of a host data frame and polars dtypes
RKinds == {"real", "integer", "string", "factor", "date", "logical", "list"}
DTypes == {"Float64", "Float32", "Int32", "Int64", "String", "Date", "Boolean"}

is_float(dtype)   == dtype \in {"Float32", "Float64"}
is_integer(dtype) == dtype \in {"Int32", "Int64"}
is_string(dtype)  == dtype = "String"
is_date(dtype)    == dtype = "Date"

NoDuplicateNames(cols) ==
    \A i, j \in DOMAIN cols : cols[i].name = cols[j].name => i = j

\* the series built from one column (lines 24-41); a Date column of the host
\* is a real vector, a factor is read through its levels
from_robj_column(col) ==
    IF col.kind \in {"real", "date"}
    THEN [tag |-> "series", name |-> col.name, dtype |-> "Float64", data |-> col.data]
    ELSE IF col.kind = "integer"
    THEN [tag |-> "series", name |-> col.name, dtype |-> "Int32", data |-> col.data]
    ELSE IF col.kind \in {"string", "factor"}
    THEN [tag |-> "series", name |-> col.name, dtype |-> "String", data |-> col.data]
    ELSE [tag |-> "error", kind |-> "Unsupported column type", name |-> col.name]

from_robj(robj) ==
    IF ~robj.is_frame
    THEN [tag |-> "error", kind |-> "robj must be a data.frame"]
    ELSE LET series == [i \in DOMAIN robj.cols |-> from_robj_column(robj.cols[i])]
             bad    == {i \in DOMAIN series : series[i].tag = "error"}
         IN  IF bad # {}
             THEN LET first == CHOOSE i \in bad : \A j \in bad : i <= j
                  IN  [tag |-> "error", kind |-> "Unsupported column type",
                       name |-> series[first].name]
             ELSE IF ~NoDuplicateNames(series)
             THEN [tag |-> "error", kind |-> "DataFrame::new"]
             ELSE [tag |-> "df",
                   cols |-> [i \in DOMAIN series |->
                                [name  |-> series[i].name,
                                 dtype |-> series[i].dtype,
                                 data  |-> series[i].data]]]

Fill(data, fallback) ==
    [i \in DOMAIN data |-> IF data[i] = Null THEN fallback ELSE data[i]]

\* the host vector built from one series (lines 55-65); "panic" is the unwrap()
\* of a failed downcast
to_robj_column(s) ==
    IF is_float(s.dtype)
    THEN IF s.dtype = "Float64"
         THEN [name |-> s.name, rtype |-> "real", data |-> Fill(s.data, F64_NAN)]
         ELSE [name |-> s.name, rtype |-> "panic", data |-> <<>>]
    ELSE IF is_integer(s.dtype)
    THEN IF s.dtype = "Int32"
         THEN [name |-> s.name, rtype |-> "integer", data |-> Fill(s.data, I32_MIN)]
         ELSE [name |-> s.name, rtype |-> "panic", data |-> <<>>]
    ELSE IF is_string(s.dtype)
    THEN [name |-> s.name, rtype |-> "string", data |-> Fill(s.data, EMPTY_STR)]
    ELSE IF is_date(s.dtype)
    THEN [name |-> s.name, rtype |-> "integer", data |-> Fill(s.data, 0)]
    ELSE [name |-> s.name, rtype |-> "null", data |-> <<>>]

\* the values are collected in reverse of the names
to_robj_misnamed(df) ==
    LET n      == Len(df.cols)
        r_cols == [i \in DOMAIN df.cols |->
                     [to_robj_column(df.cols[n + 1 - i]) EXCEPT !.name = df.cols[i].name]]
    IN  IF \E i \in DOMAIN r_cols : r_cols[i].rtype = "panic"
        THEN [tag |-> "panic"]
        ELSE [tag |-> "robj", is_frame |-> TRUE, cols |-> r_cols]

to_robj(df) ==
    LET r_cols == [i \in DOMAIN df.cols |-> to_robj_column(df.cols[i])]
    IN  IF \E i \in DOMAIN r_cols : r_cols[i].rtype = "panic"
        THEN [tag |-> "panic"]
        ELSE [tag |-> "robj", is_frame |-> TRUE, cols |-> r_cols]

\* column access on a DataFrame
HasColumn(df, name) == \E i \in DOMAIN df.cols : df.cols[i].name = name
Column(df, name) == df.cols[CHOOSE i \in DOMAIN df.cols : df.cols[i].name = name]
Height(df) == IF df.cols = <<>> THEN 0 ELSE Len(df.cols[1].data)
RowsOf(df) ==
    [i \in 1..Height(df) |->
        [n \in {df.cols[c].name : c \in DOMAIN df.cols} |-> Column(df, n).data[i]]]

----------------------------------------------------------------------------
(* hts_core::HierarchySpec  (spec.md 4.1) *)

Overlap(hierarchy, groups) == Range(hierarchy) \cap Range(groups) # {}

HierarchySpec_new(hierarchy, groups) ==
    IF Overlap(hierarchy, groups) \/ (hierarchy = <<>> /\ groups = <<>>)
    THEN [tag |-> "error", kind |-> "InvalidSpecification"]
    ELSE [tag |-> "spec", hierarchy |-> hierarchy, groups |-> groups]

HierarchySpec_hierarchical(columns) == HierarchySpec_new(columns, <<>>)

HierarchySpec_grouped(columns) == HierarchySpec_new(<<>>, columns)

----------------------------------------------------------------------------
(* hts_core Key Extractor  (spec.md 4.2) *)

\* the BottomKey of one row: (hierarchy-path values, group values)
BottomKey(sp, row) ==
    [h |-> [i \in 1..Len(sp.hierarchy) |-> row[sp.hierarchy[i]]],
     g |-> [i \in 1..Len(sp.groups) |-> row[sp.groups[i]]]]

\* distinct BottomKeys in order of first occurrence
ExtractKeys(sp, rows) ==
    FirstSeen([i \in 1..Len(rows) |-> BottomKey(sp, rows[i])])

\* the same lower-hierarchy value under two different values of a higher column
NestingViolated(sp, rows) ==
    \E i, j \in 1..Len(rows) : \E lo, hi \in 1..Len(sp.hierarchy) :
        /\ hi < lo
        /\ rows[i][sp.hierarchy[lo]] = rows[j][sp.hierarchy[lo]]
        /\ rows[i][sp.hierarchy[hi]] # rows[j][sp.hierarchy[hi]]

\* the same (BottomKey, period) observed twice
DuplicateObserved(sp, time_col, rows) ==
    \E i, j \in 1..Len(rows) :
        /\ i # j
        /\ BottomKey(sp, rows[i]) = BottomKey(sp, rows[j])
        /\ rows[i][time_col] = rows[j][time_col]

----------------------------------------------------------------------------
(* hts_core Level Enumerator  (spec.md 4.3) *)

\* node membership: hierarchy prefix match and agreement on every fixed group
NodeMatches(node, key) ==
    /\ Len(node.h) <= Len(key.h)
    /\ \A i \in 1..Len(node.h) : node.h[i] = key.h[i]
    /\ \A i \in 1..Len(node.g) : node.g[i] = Total \/ node.g[i] = key.g[i]

\* hierarchy prefixes of length k that occur in the observed keys
Prefixes(keys, k) == {SubSeq(keys[c].h, 1, k) : c \in DOMAIN keys}

\* prefix -> the bottom keys under it (built once per prefix length)
Members(keys, prefix) ==
    {c \in DOMAIN keys : SubSeq(keys[c].h, 1, Len(prefix)) = prefix}

\* the group assignments of the subset `sub` observed among `members`
Assignments(keys, members, sub, G) ==
    {[i \in 1..G |-> IF i \in sub THEN keys[c].g[i] ELSE Total] : c \in members}

EnumerateNodes(keys, D, G) ==
    UNION {UNION {UNION {
        {[h |-> prefix, g |-> a] :
            a \in Assignments(keys, Members(keys, prefix), sub, G)}
        : sub \in SUBSET (1..G)}
        : prefix \in Prefixes(keys, k)}
        : k \in 0..D}

GroupsFixed(node) == Cardinality({i \in DOMAIN node.g : node.g[i] # Total})

Radix == Cardinality(Codes) + 1

RECURSIVE Encode(_, _)
Encode(s, len) ==
    IF len = 0 THEN 0
    ELSE Encode(s, len - 1) * Radix + (IF len <= Len(s) THEN s[len] ELSE 0)

\* canonical row order: hierarchy depth, then number of fixed groups, then labels
NodeKey(node, D, G) ==
    ((Len(node.h) * (G + 1) + GroupsFixed(node)) * Pow(Radix, D) + Encode(node.h, D))
        * Pow(Radix, G) + Encode(node.g, G)

RECURSIVE SortNodes(_, _, _)
SortNodes(S, D, G) ==
    IF S = {} THEN <<>>
    ELSE LET m == CHOOSE x \in S : \A y \in S : NodeKey(x, D, G) <= NodeKey(y, D, G)
         IN  <<m>> \o SortNodes(S \ {m}, D, G)

----------------------------------------------------------------------------
(* hts_core Summation Matrix Builder  (spec.md 4.4) *)

BuildMatrix(nodes, keys) ==
    [r \in 1..Len(nodes) |->
        [c \in 1..Len(keys) |-> IF NodeMatches(nodes[r], keys[c]) THEN 1 ELSE 0]]

----------------------------------------------------------------------------
(* hts_core::HierarchicalTimeSeries  (spec.md 4.2-4.5, 6, 7) *)

RECURSIVE SortInts(_)
SortInts(S) ==
    IF S = {} THEN <<>>
    ELSE LET m == CHOOSE x \in S : \A y \in S : x <= y
         IN  <<m>> \o SortInts(S \ {m})

TypesSupported(df, sp, time_col, value_col) ==
    /\ Column(df, value_col).dtype \in {"Float64", "Int32"}
    /\ \A n \in Range(sp.hierarchy) \cup Range(sp.groups) :
           Column(df, n).dtype \in {"String", "Int32"}

HierarchicalTimeSeries_new(df, sp, time_col, value_col) ==
    LET needed == Range(sp.hierarchy) \cup Range(sp.groups) \cup {time_col, value_col}
        rows   == RowsOf(df)
    IN  IF \E n \in needed : ~HasColumn(df, n)
        THEN [tag |-> "error", kind |-> "MissingColumn"]
        ELSE IF ~TypesSupported(df, sp, time_col, value_col)
        THEN [tag |-> "error", kind |-> "UnsupportedColumnType"]
        ELSE IF NestingViolated(sp, rows)
        THEN [tag |-> "error", kind |-> "InconsistentNesting"]
        ELSE IF DuplicateObserved(sp, time_col, rows)
        THEN [tag |-> "error", kind |-> "DuplicateObservation"]
        ELSE LET keys  == ExtractKeys(sp, rows)
                 D     == Len(sp.hierarchy)
                 G     == Len(sp.groups)
                 nodes == SortNodes(EnumerateNodes(keys, D, G), D, G)
             IN  [tag         |-> "engine",
                  spec        |-> sp,
                  time_col    |-> time_col,
                  value_col   |-> value_col,
                  time_dtype  |-> Column(df, time_col).dtype,
                  value_dtype |-> Column(df, value_col).dtype,
                  bottom_keys |-> keys,
                  nodes       |-> nodes,
                  matrix      |-> BuildMatrix(nodes, keys),
                  periods     |-> SortInts({rows[i][time_col] : i \in DOMAIN rows}),
                  table       |-> [i \in DOMAIN rows |->
                                      [key    |-> BottomKey(sp, rows[i]),
                                       period |-> rows[i][time_col],
                                       value  |-> rows[i][value_col]]]]

\* the loader reads the file into a table and hands it to the constructor; a
\* file that cannot be read is the loader's own failure
HierarchicalTimeSeries_from_csv(file, sp, time_col, value_col) ==
    IF file.tag = "unreadable"
    THEN [tag |-> "error", kind |-> "Io"]
    ELSE HierarchicalTimeSeries_new(file.table, sp, time_col, value_col)

inner_n_series(e)  == Len(e.nodes)
inner_n_bottom(e)  == Len(e.bottom_keys)
inner_n_periods(e) == Len(e.periods)

\* bottom-level value vector of one period, in column order; a bottom key with
\* no observation in the period contributes zero (the zero-fill policy of 4.5)
BottomVector(e, period) ==
    [c \in DOMAIN e.bottom_keys |->
        SumSeq([i \in DOMAIN e.table |->
                   IF e.table[i].key = e.bottom_keys[c] /\ e.table[i].period = period
                   THEN e.table[i].value ELSE 0])]

\* matrix-vector product
MatVec(matrix, v) ==
    [r \in DOMAIN matrix |-> SumSeq([c \in DOMAIN v |-> matrix[r][c] * v[c]])]

\* the output rows of one period: one per node, in row order
AggregatePeriod(e, period) ==
    LET y == MatVec(e.matrix, BottomVector(e, period))
    IN  [r \in DOMAIN e.nodes |-> [node |-> e.nodes[r], period |-> period, value |-> y[r]]]

RECURSIVE Flatten(_)
Flatten(ss) == IF ss = <<>> THEN <<>> ELSE Head(ss) \o Flatten(Tail(ss))

\* the AggregatedTable as a DataFrame: label columns, time column, value column
AggregatedFrame(e, out) ==
    [tag  |-> "df",
     cols |->
        [i \in 1..Len(e.spec.hierarchy) |->
            [name |-> e.spec.hierarchy[i], dtype |-> "String",
             data |-> [k \in DOMAIN out |->
                          IF i <= Len(out[k].node.h) THEN out[k].node.h[i] ELSE Total]]]
        \o
        [i \in 1..Len(e.spec.groups) |->
            [name |-> e.spec.groups[i], dtype |-> "String",
             data |-> [k \in DOMAIN out |-> out[k].node.g[i]]]]
        \o
        <<[name |-> e.time_col, dtype |-> e.time_dtype,
           data |-> [k \in DOMAIN out |-> out[k].period]],
          [name |-> e.value_col, dtype |-> e.value_dtype,
           data |-> [k \in DOMAIN out |-> out[k].value]]>>]

aggregate_all(e) ==
    AggregatedFrame(e, Flatten([p \in DOMAIN e.periods |-> AggregatePeriod(e, e.periods[p])]))

----------------------------------------------------------------------------
(* hierarchy.rs: HtsSpec *)

\* a failed inner constructor is replaced by the default (empty) specification
Wrap_or_default(inner) ==
    [tag |-> "HtsSpec",
     inner |-> IF inner.tag = "error"
               THEN [tag |-> "spec", hierarchy |-> <<>>, groups |-> <<>>]
               ELSE inner]

\* the constructors return Self: a failure of the inner constructor reaches the
\* host as an error and no HtsSpec object exists
Wrap(inner) ==
    IF inner.tag = "error" THEN inner ELSE [tag |-> "HtsSpec", inner |-> inner]

HtsSpec_new(hierarchy, groups) == Wrap(HierarchySpec_new(hierarchy, groups))

HtsSpec_hierarchical(columns) == Wrap(HierarchySpec_hierarchical(columns))

HtsSpec_grouped(columns) == Wrap(HierarchySpec_grouped(columns))

HtsSpec_print(s) == <<s.inner.hierarchy, s.inner.groups>>

----------------------------------------------------------------------------
(* hierarchy.rs: Hts *)

\* the engine's error is replaced by a fixed message
Hts_new_generic(bottom_level, spec, time_col, value_col) ==
    LET df == from_robj(bottom_level)
    IN  IF df.tag = "error"
        THEN [tag |-> "error", kind |-> df.kind]
        ELSE LET inner == HierarchicalTimeSeries_new(df, spec.inner, time_col, value_col)
             IN  IF inner.tag = "error"
                 THEN [tag |-> "error", kind |-> "Failed to construct"]
                 ELSE [tag |-> "Hts", inner |-> inner]

Hts_new(bottom_level, spec, time_col, value_col) ==
    LET df == from_robj(bottom_level)
    IN  IF df.tag = "error"
        THEN [tag |-> "error", kind |-> df.kind]
        ELSE LET inner == HierarchicalTimeSeries_new(df, spec.inner, time_col, value_col)
             IN  IF inner.tag = "error"
                 THEN [tag |-> "error", kind |-> inner.kind]
                 ELSE [tag |-> "Hts", inner |-> inner]

\* each counter asks the engine for the other count
n_series_as_bottom(self) == AsI32(inner_n_bottom(self.inner))
n_bottom_as_series(self) == AsI32(inner_n_series(self.inner))

Hts_from_csv(path, spec, time_col, value_col) ==
    LET inner == HierarchicalTimeSeries_from_csv(path, spec.inner, time_col, value_col)
    IN  IF inner.tag = "error"
        THEN [tag |-> "error", kind |-> "Failed to load CSV", cause |-> inner.kind]
        ELSE [tag |-> "Hts", inner |-> inner]

n_series(self) == AsI32(inner_n_series(self.inner))

n_bottom(self) == AsI32(inner_n_bottom(self.inner))

n_periods(self) == AsI32(inner_n_periods(self.inner))

print(self) ==
    <<inner_n_series(self.inner), inner_n_bottom(self.inner), inner_n_periods(self.inner)>>

\* RMatrix::new_matrix(nrow, ncol, |row, col| ..) builds the nrow x ncol host
\* matrix whose cell (row, col) is the closure's value; rows and columns are
\* counted from 1 here

\* the host matrix is built with the two dimensions exchanged
summation_matrix_transposed(self) ==
    LET data == self.inner.matrix
        rows == Len(data)
        cols == Len(self.inner.bottom_keys)
    IN  [matrix     |-> [nrow |-> cols, ncol |-> rows,
                         cell |-> [rc \in (1..cols) \X (1..rows) |-> data[rc[2]][rc[1]]]],
         row_labels |-> self.inner.nodes,
         col_labels |-> self.inner.bottom_keys]

\* the cells are filled walking the data column by column instead of row by row
summation_matrix_colmajor(self) ==
    LET data == self.inner.matrix
        rows == Len(data)
        cols == Len(self.inner.bottom_keys)
        at(row, col) ==
            LET idx == (row - 1) * cols + (col - 1)
            IN  data[(idx % rows) + 1][(idx \div rows) + 1]
    IN  [matrix     |-> [nrow |-> rows, ncol |-> cols,
                         cell |-> [rc \in (1..rows) \X (1..cols) |-> at(rc[1], rc[2])]],
         row_labels |-> self.inner.nodes,
         col_labels |-> self.inner.bottom_keys]

summation_matrix(self) ==
    LET data == self.inner.matrix
        rows == Len(data)
        cols == Len(self.inner.bottom_keys)
        at(row, col) == data[row][col]
    IN  [matrix     |-> [nrow |-> rows, ncol |-> cols,
                         cell |-> [rc \in (1..rows) \X (1..cols) |-> at(rc[1], rc[2])]],
         row_labels |-> self.inner.nodes,
         col_labels |-> self.inner.bottom_keys]

\* Ok(to_robj(polars_df)) of the closing lines of aggregated_series
Marshal(polars_df) ==
    IF polars_df.tag = "error"
    THEN [tag |-> "error", kind |-> polars_df.kind]
    ELSE to_robj(polars_df)

aggregated_series(self) == Marshal(aggregate_all(self.inner))

----------------------------------------------------------------------------
(* The host session *)

None == [tag |-> "none", op |-> "none"]

ColOrder == <<"state", "city", "sector", "quarter", "gdp">>

Standard ==
    [n \in ColNames |-> IF n = "gdp" THEN "real" ELSE "string"]

\* column kinds of the data frames handed to Hts::new
KindChoices ==
    {Standard,
     [Standard EXCEPT !["gdp"] = "integer"],
     [Standard EXCEPT !["gdp"] = "string"],
     [Standard EXCEPT !["city"] = "logical"]}

DataFrame(obs, kinds) ==
    [is_frame |-> TRUE,
     cols |-> [c \in DOMAIN ColOrder |->
                  [name |-> ColOrder[c], kind |-> kinds[ColOrder[c]],
                   data |-> [i \in DOMAIN obs |->
                                IF ColOrder[c] = "gdp" THEN GdpAt(i)
                                ELSE obs[i][ColOrder[c]]]]]]

BottomLevels == {DataFrame(obs, kinds) : obs \in ObsSeqs, kinds \in KindChoices}

\* the files handed to Hts::from_csv (the path stands for the file it names):
\* text key and period columns, a floating-point value column
CsvFile(obs) ==
    [tag |-> "file",
     table |-> [tag |-> "df",
                cols |-> [c \in DOMAIN ColOrder |->
                    [name  |-> ColOrder[c],
                     dtype |-> IF ColOrder[c] = "gdp" THEN "Float64" ELSE "String",
                     data  |-> [i \in DOMAIN obs |->
                                  IF ColOrder[c] = "gdp" THEN GdpAt(i)
                                  ELSE obs[i][ColOrder[c]]]]]]]

CsvFiles == {[tag |-> "unreadable"]} \cup {CsvFile(obs) : obs \in ObsSeqs}

HierarchyChoices == {<<>>, <<"state", "city">>}
GroupChoices     == {<<>>, <<"sector">>, <<"city", "sector">>}
TimeCols         == {"quarter", "week"}

Init ==
    /\ spec_obj = None
    /\ hts = None
    /\ ret = None
    /\ conv = None
    /\ par = None

\* a constructor call of the host: the object replaces the held one on success
Construct(op, args, result) ==
    /\ spec_obj = None
    /\ hts = None
    /\ spec_obj' = IF result.tag = "error" THEN spec_obj ELSE result
    /\ ret' = [op |-> op, args |-> args, val |-> result]
    /\ UNCHANGED <<hts, conv, par>>

CallSpecNew ==
    \E hierarchy \in HierarchyChoices, groups \in GroupChoices :
        Construct("HtsSpec::new", <<hierarchy, groups>>, HtsSpec_new(hierarchy, groups))

CallSpecHierarchical ==
    \E columns \in HierarchyChoices :
        Construct("HtsSpec::hierarchical", <<columns>>, HtsSpec_hierarchical(columns))

CallSpecGrouped ==
    \E columns \in GroupChoices :
        Construct("HtsSpec::grouped", <<columns>>, HtsSpec_grouped(columns))

CallSpecPrint ==
    /\ spec_obj.tag = "HtsSpec"
    /\ hts = None
    /\ ret' = [op |-> "HtsSpec::print", val |-> HtsSpec_print(spec_obj)]
    /\ UNCHANGED <<spec_obj, hts, conv, par>>

CallHtsNew ==
    /\ spec_obj.tag = "HtsSpec"
    /\ hts = None
    /\ \E bottom_level \in BottomLevels, time_col \in TimeCols :
         LET result == Hts_new(bottom_level, spec_obj, time_col, "gdp")
         IN  /\ hts' = result
             /\ ret' = [op |-> "Hts::new",
                        args |-> [bottom_level |-> bottom_level, time_col |-> time_col],
                        val |-> IF result.tag = "error" THEN result ELSE [tag |-> "ok"]]
    /\ UNCHANGED <<spec_obj, conv, par>>

CallHtsFromCsv ==
    /\ spec_obj.tag = "HtsSpec"
    /\ hts = None
    /\ \E path \in CsvFiles, time_col \in TimeCols :
         LET result == Hts_from_csv(path, spec_obj, time_col, "gdp")
         IN  /\ hts' = result
             /\ ret' = [op |-> "Hts::from_csv",
                        args |-> [path |-> path, time_col |-> time_col],
                        val |-> IF result.tag = "error" THEN result ELSE [tag |-> "ok"]]
    /\ UNCHANGED <<spec_obj, conv, par>>

\* a query that drains the engine's table while answering
QueryDraining(op, result) ==
    /\ ret' = [op |-> op, val |-> result]
    /\ hts' = [hts EXCEPT !.inner.table = <<>>]
    /\ UNCHANGED <<spec_obj, conv, par>>

\* a query call on &self
Query(op, result) ==
    /\ ret' = [op |-> op, val |-> result]
    /\ UNCHANGED <<spec_obj, hts, conv, par>>

CallNSeries == hts.tag = "Hts" /\ Query("n_series", n_series(hts))

CallNBottom == hts.tag = "Hts" /\ Query("n_bottom", n_bottom(hts))

CallNPeriods == hts.tag = "Hts" /\ Query("n_periods", n_periods(hts))

CallPrint == hts.tag = "Hts" /\ Query("print", print(hts))

CallSummationMatrix ==
    hts.tag = "Hts" /\ Query("summation_matrix", summation_matrix(hts))

CallAggregatedSeries ==
    hts.tag = "Hts" /\ Query("aggregated_series", aggregated_series(hts))

Next ==
    \/ CallSpecNew
    \/ CallSpecHierarchical
    \/ CallSpecGrouped
    \/ CallSpecPrint
    \/ CallHtsNew
    \/ CallHtsFromCsv
    \/ CallNSeries
    \/ CallNBottom
    \/ CallNPeriods
    \/ CallPrint
    \/ CallSummationMatrix
    \/ CallAggregatedSeries

Spec == Init /\ [][Next]_vars

----------------------------------------------------------------------------
(* The conversions of helpers.rs called on their own *)

ConvNames == {"x", "y", "z"}

HostColumn == [name : ConvNames, kind : RKinds, data : {<<1>>}]

HostFrames ==
    {[is_frame |-> f, cols |-> cs] :
        f \in BOOLEAN, cs \in UNION {[1..n -> HostColumn] : n \in 0..MaxCols}}

Series == [name : ConvNames, dtype : DTypes, data : {<<1>>, <<Null>>}]

\* a polars DataFrame has unique column names
PolarsFrames ==
    {[tag |-> "df", cols |-> cs] :
        cs \in {c \in UNION {[1..n -> Series] : n \in 0..MaxCols} : NoDuplicateNames(c)}}

InitConv ==
    /\ spec_obj = None
    /\ hts = None
    /\ ret = None
    /\ par = None
    /\ conv \in {[tag |-> "call", dir |-> "from_robj", arg |-> a, out |-> None] : a \in HostFrames}
           \cup {[tag |-> "call", dir |-> "to_robj", arg |-> a, out |-> None] : a \in PolarsFrames}

CallFromRobj ==
    /\ conv.dir = "from_robj"
    /\ conv.out = None
    /\ conv' = [conv EXCEPT !.out = from_robj(conv.arg)]
    /\ UNCHANGED <<spec_obj, hts, ret, par>>

CallToRobj ==
    /\ conv.dir = "to_robj"
    /\ conv.out = None
    /\ conv' = [conv EXCEPT !.out = to_robj(conv.arg)]
    /\ UNCHANGED <<spec_obj, hts, ret, par>>

NextConv ==
    \/ CallFromRobj
    \/ CallToRobj

SpecConv == InitConv /\ [][NextConv]_vars

----------------------------------------------------------------------------
(* aggregate_all() with one worker per period  (spec.md 5) *)

\* every worker stores into the first slot
WriteBuffer_shared(buf, p, rows) == [buf EXCEPT ![1] = rows]

\* the buffers after worker p has stored its rows: its own slot only
WriteBuffer(buf, p, rows) == [buf EXCEPT ![p] = rows]

\* the final merge / collect, in period order
Merge(e, buf) == AggregatedFrame(e, Flatten(buf))

ValidSpecs ==
    {s \in {HtsSpec_new(h, g) : h \in HierarchyChoices, g \in GroupChoices} :
        s.tag = "HtsSpec"}

Engines(s) ==
    {x \in {Hts_new(b, s, "quarter", "gdp") : b \in BottomLevels} : x.tag = "Hts"}

InitPar ==
    /\ spec_obj \in ValidSpecs
    /\ hts \in Engines(spec_obj)
    /\ ret = None
    /\ conv = None
    /\ par = None

\* aggregated_series() is entered: one idle worker per period, empty buffers;
\* `finished` logs the order in which the workers complete
ParStart ==
    /\ hts.tag = "Hts"
    /\ par = None
    /\ par' = [tag |-> "running", op |-> "aggregate_all",
               pc  |-> [p \in DOMAIN hts.inner.periods |-> "idle"],
               vec |-> [p \in DOMAIN hts.inner.periods |-> <<>>],
               buf |-> [p \in DOMAIN hts.inner.periods |-> <<>>],
               finished |-> <<>>]
    /\ UNCHANGED <<spec_obj, hts, ret, conv>>

\* worker p builds the bottom-level value vector of its period
WorkerRead(p) ==
    /\ par.tag = "running"
    /\ par.pc[p] = "idle"
    /\ par' = [par EXCEPT !.pc[p] = "read",
                           !.vec[p] = BottomVector(hts.inner, hts.inner.periods[p])]
    /\ UNCHANGED <<spec_obj, hts, ret, conv>>

\* worker p applies the matrix and stores its period's rows
WorkerWrite(p) ==
    /\ par.tag = "running"
    /\ par.pc[p] = "read"
    /\ LET y    == MatVec(hts.inner.matrix, par.vec[p])
           rows == [r \in DOMAIN hts.inner.nodes |->
                       [node |-> hts.inner.nodes[r],
                        period |-> hts.inner.periods[p], value |-> y[r]]]
       IN  par' = [par EXCEPT !.pc[p] = "done",
                              !.buf = WriteBuffer(par.buf, p, rows),
                              !.finished = Append(par.finished, p)]
    /\ UNCHANGED <<spec_obj, hts, ret, conv>>

\* all workers are done: merge the buffers and hand the frame to the host
ParMerge ==
    /\ par.tag = "running"
    /\ \A p \in DOMAIN par.pc : par.pc[p] = "done"
    /\ par' = [par EXCEPT !.tag = "merged"]
    /\ ret' = [op |-> "aggregated_series", val |-> Marshal(Merge(hts.inner, par.buf))]
    /\ UNCHANGED <<spec_obj, hts, conv>>

NextPar ==
    \/ ParStart
    \/ \E p \in DOMAIN hts.inner.periods : WorkerRead(p)
    \/ \E p \in DOMAIN hts.inner.periods : WorkerWrite(p)
    \/ ParMerge

SpecPar == InitPar /\ [][NextPar]_vars

----------------------------------------------------------------------------
(* Properties *)

Engine == hts.inner

\* reading the host data frame returned by aggregated_series()
RColumn(robj, name) ==
    robj.cols[CHOOSE i \in DOMAIN robj.cols : robj.cols[i].name = name]

RHeight(robj) == Len(RColumn(robj, Engine.value_col).data)

\* the node a row of the returned frame is labelled with
RowNode(robj, k) ==
    [h |-> [i \in DOMAIN Engine.spec.hierarchy |->
               RColumn(robj, Engine.spec.hierarchy[i]).data[k]],
     g |-> [i \in DOMAIN Engine.spec.groups |->
               RColumn(robj, Engine.spec.groups[i]).data[k]]]

\* a node's labels: its path padded with the Total marker
Labels(node) ==
    [h |-> [i \in DOMAIN Engine.spec.hierarchy |->
               IF i <= Len(node.h) THEN node.h[i] ELSE Total],
     g |-> node.g]

\* the rows of the returned frame that carry (node, period)
RowsFor(robj, node, period) ==
    {k \in 1..RHeight(robj) :
        /\ RowNode(robj, k) = Labels(node)
        /\ RColumn(robj, Engine.time_col).data[k] = period}

\* group-by-sum over the raw observations whose bottom series has a 1 in row r
SumWhereOne(r, period) ==
    SumSeq([i \in DOMAIN Engine.table |->
        IF /\ Engine.table[i].period = period
           /\ \E c \in DOMAIN Engine.bottom_keys :
                  /\ Engine.bottom_keys[c] = Engine.table[i].key
                  /\ Engine.matrix[r][c] = 1
        THEN Engine.table[i].value ELSE 0])

\* group-by-sum over the raw observations whose key lies under the node
SumUnderNode(node, period) ==
    SumSeq([i \in DOMAIN Engine.table |->
        IF /\ Engine.table[i].period = period
           /\ Len(node.h) <= Len(Engine.table[i].key.h)
           /\ \A j \in DOMAIN node.h : node.h[j] = Engine.table[i].key.h[j]
           /\ \A j \in DOMAIN node.g :
                  node.g[j] = Total \/ node.g[j] = Engine.table[i].key.g[j]
        THEN Engine.table[i].value ELSE 0])

Aggregated == ret.op = "aggregated_series" /\ hts.tag = "Hts"

\* C1: every value aggregated_series() returns for (node, period) is the sum of
\* the raw observations of that period over exactly the bottom series whose
\* summation-matrix entry in the node's row is 1, which is also the sum over
\* the raw observations lying under the node, and each (node, period) is
\* returned once.
C1_AggregateIsGroupBySum ==
    Aggregated =>
        /\ ret.val.tag = "robj"
        /\ \A r \in DOMAIN Engine.nodes : \A p \in DOMAIN Engine.periods :
              LET hits == RowsFor(ret.val, Engine.nodes[r], Engine.periods[p])
              IN  /\ Cardinality(hits) = 1
                  /\ \A k \in hits :
                        /\ RColumn(ret.val, Engine.value_col).data[k]
                              = SumWhereOne(r, Engine.periods[p])
                        /\ RColumn(ret.val, Engine.value_col).data[k]
                              = SumUnderNode(Engine.nodes[r], Engine.periods[p])

\* two bottom series observed in two different periods have been aggregated
C1_Witness ==
    /\ Aggregated
    /\ Len(Engine.bottom_keys) = 2
    /\ Len(Engine.periods) = 2

IsPrefix(a, b) ==
    Len(a) <= Len(b) /\ \A i \in DOMAIN a : a[i] = b[i]

FixedGroupsAgree(node, key) ==
    \A i \in DOMAIN node.g : node.g[i] # Total => node.g[i] = key.g[i]

Matrixed == ret.op = "summation_matrix" /\ hts.tag = "Hts"

\* C2: the matrix summation_matrix() returns is n_series() x n_bottom(), holds
\* only 0 and 1, and has a 1 at (row, col) exactly when the bottom key of col
\* has the row node's path as a prefix and agrees on every group the node fixes.
C2_MatrixShapeAndEntries ==
    Matrixed =>
        LET m == ret.val.matrix
        IN  /\ m.nrow = n_series(hts)
            /\ m.ncol = n_bottom(hts)
            /\ DOMAIN m.cell = (1..m.nrow) \X (1..m.ncol)
            /\ \A rc \in DOMAIN m.cell :
                  /\ m.cell[rc] \in {0, 1}
                  /\ m.cell[rc] = 1 <=>
                        /\ IsPrefix(Engine.nodes[rc[1]].h, Engine.bottom_keys[rc[2]].h)
                        /\ FixedGroupsAgree(Engine.nodes[rc[1]], Engine.bottom_keys[rc[2]])

\* a matrix with more rows than columns and both a 0 and a 1 has been returned
C2_Witness ==
    /\ Matrixed
    /\ ret.val.matrix.ncol = 2
    /\ ret.val.matrix.nrow > 2
    /\ \E rc \in DOMAIN ret.val.matrix.cell : ret.val.matrix.cell[rc] = 0

IsBottomNode(node) ==
    /\ Len(node.h) = Len(Engine.spec.hierarchy)
    /\ \A i \in DOMAIN node.g : node.g[i] # Total

\* C3: n_bottom() is the number of distinct (hierarchy path, group values)
\* combinations among the input rows, and the matrix rows of the bottom nodes
\* are identity rows: 1 in the node's own column, 0 in every other.
C3_BottomCountAndIdentity ==
    /\ (ret.op = "n_bottom" /\ hts.tag = "Hts") =>
          ret.val = Cardinality({Engine.table[i].key : i \in DOMAIN Engine.table})
    /\ Matrixed =>
          LET m == ret.val
          IN  /\ \A c \in DOMAIN m.col_labels :
                    \E r \in DOMAIN m.row_labels :
                        /\ IsBottomNode(m.row_labels[r])
                        /\ m.row_labels[r] = m.col_labels[c]
              /\ \A r \in DOMAIN m.row_labels :
                    IsBottomNode(m.row_labels[r]) =>
                        \A c \in DOMAIN m.col_labels :
                            m.matrix.cell[<<r, c>>] =
                                (IF m.col_labels[c] = m.row_labels[r] THEN 1 ELSE 0)

\* n_bottom() has returned 2 for an input of two distinct combinations
C3_Witness ==
    /\ ret.op = "n_bottom"
    /\ hts.tag = "Hts"
    /\ ret.val = 2
    /\ Len(Engine.table) = 2

IsGrandTotal(node) ==
    node.h = <<>> /\ \A i \in DOMAIN node.g : node.g[i] = Total

\* the labels of the grand total: Total in every label column
AllTotal(labels) ==
    /\ \A i \in DOMAIN labels.h : labels.h[i] = Total
    /\ \A i \in DOMAIN labels.g : labels.g[i] = Total

SumOfPeriod(period) ==
    SumSeq([i \in DOMAIN Engine.table |->
        IF Engine.table[i].period = period THEN Engine.table[i].value ELSE 0])

\* C4: the grand-total row of the returned matrix has a 1 in every column, and
\* the grand-total value returned for each period is the sum of all bottom-level
\* values of that period.
C4_GrandTotal ==
    /\ Matrixed =>
          \A r \in DOMAIN ret.val.row_labels :
              IsGrandTotal(ret.val.row_labels[r]) =>
                  /\ ret.val.matrix.ncol = Len(ret.val.col_labels)
                  /\ \A c \in DOMAIN ret.val.col_labels :
                        ret.val.matrix.cell[<<r, c>>] = 1
    /\ Aggregated =>
          /\ ret.val.tag = "robj"
          /\ \A p \in DOMAIN Engine.periods :
                \E k \in 1..RHeight(ret.val) :
                    /\ AllTotal(RowNode(ret.val, k))
                    /\ RColumn(ret.val, Engine.time_col).data[k] = Engine.periods[p]
                    /\ RColumn(ret.val, Engine.value_col).data[k]
                           = SumOfPeriod(Engine.periods[p])

\* a grand total over two bottom series of one period has been returned
C4_Witness ==
    /\ Aggregated
    /\ Len(Engine.bottom_keys) = 2
    /\ Len(Engine.periods) = 1
    /\ \E k \in 1..RHeight(ret.val) :
          /\ AllTotal(RowNode(ret.val, k))
          /\ RColumn(ret.val, Engine.value_col).data[k] = GdpAt(1) + GdpAt(2)

SpecCalls == {"HtsSpec::new", "HtsSpec::hierarchical", "HtsSpec::grouped"}

\* the hierarchy and groups a constructor call asked for
AskedHierarchy == IF ret.op = "HtsSpec::grouped" THEN <<>> ELSE ret.args[1]
AskedGroups ==
    IF ret.op = "HtsSpec::new" THEN ret.args[2]
    ELSE IF ret.op = "HtsSpec::grouped" THEN ret.args[1] ELSE <<>>

Invalid(hierarchy, groups) ==
    \/ \E i \in DOMAIN hierarchy : \E j \in DOMAIN groups : hierarchy[i] = groups[j]
    \/ (Len(hierarchy) = 0 /\ Len(groups) = 0)

Building == ret.op \in {"Hts::new", "Hts::from_csv"}

GivenCols ==
    IF ret.op = "Hts::new" THEN ret.args.bottom_level.cols
    ELSE IF ret.args.path.tag = "file" THEN ret.args.path.table.cols
    ELSE <<>>

GivenNames == {GivenCols[c].name : c \in DOMAIN GivenCols}
GivenColumn(name) ==
    GivenCols[CHOOSE c \in DOMAIN GivenCols : GivenCols[c].name = name]
GivenHeight == IF GivenCols = <<>> THEN 0 ELSE Len(GivenCols[1].data)

\* some value of a lower hierarchy column stands under two values of a higher one
NestedTwice(hierarchy) ==
    \E i, j \in 1..GivenHeight : \E lo, hi \in DOMAIN hierarchy :
        /\ hi < lo
        /\ GivenColumn(hierarchy[lo]).data[i] = GivenColumn(hierarchy[lo]).data[j]
        /\ GivenColumn(hierarchy[hi]).data[i] # GivenColumn(hierarchy[hi]).data[j]

BadNestingGiven == Building /\ NestedTwice(spec_obj.inner.hierarchy)

\* the data frame converts: it is a frame of real, integer, string or factor
\* columns (a file is read by the loader)
Converts ==
    ret.op = "Hts::new" =>
        /\ ret.args.bottom_level.is_frame
        /\ \A c \in DOMAIN GivenCols :
              GivenCols[c].kind \in {"real", "integer", "string", "factor", "date"}

\* the table names every column of the call, with a numeric value column and
\* discrete hierarchy / group columns
ColumnsFit ==
    LET keyed == Range(spec_obj.inner.hierarchy) \cup Range(spec_obj.inner.groups)
        numeric(col)  == IF ret.op = "Hts::new"
                         THEN col.kind \in {"real", "integer", "date"}
                         ELSE col.dtype \in {"Float64", "Int32"}
        discrete(col) == IF ret.op = "Hts::new"
                         THEN col.kind \in {"integer", "string", "factor"}
                         ELSE col.dtype \in {"String", "Int32"}
    IN  /\ keyed \cup {ret.args.time_col, "gdp"} \subseteq GivenNames
        /\ numeric(GivenColumn("gdp"))
        /\ \A n \in keyed : discrete(GivenColumn(n))

ReachesNestingCheck == Converts /\ ColumnsFit

\* the failure reported: Hts::from_csv prefixes the engine's with its own message
Reported == IF ret.op = "Hts::from_csv" THEN ret.val.cause ELSE ret.val.kind

\* C6 as stated: whenever the input holds a lower-hierarchy value under two
\* higher-hierarchy values, engine construction fails with InconsistentNesting
\* and returns no engine.
C6_AlwaysInconsistentNesting ==
    BadNestingGiven =>
        /\ ret.val.tag = "error"
        /\ Reported = "InconsistentNesting"
        /\ hts.tag # "Hts"

\* C6 (amended): whenever the input holds a lower-hierarchy value under two
\* higher-hierarchy values, in whichever row order, engine construction fails
\* and returns no engine; the failure is InconsistentNesting when the data frame
\* converts and the table names the columns of the call with types the engine
\* supports, and otherwise the earlier conversion, missing-column or
\* column-type failure.
C6_NestingRejected ==
    BadNestingGiven =>
        /\ ret.val.tag = "error"
        /\ hts.tag # "Hts"
        /\ ReachesNestingCheck => Reported = "InconsistentNesting"
        /\ ~ReachesNestingCheck =>
              Reported \in {"robj must be a data.frame", "Unsupported column type",
                            "DataFrame::new", "MissingColumn", "UnsupportedColumnType"}

\* the city seen first under state 2 and then under state 1 has been refused
C6_Witness ==
    /\ BadNestingGiven
    /\ ret.op = "Hts::new"
    /\ ReachesNestingCheck
    /\ GivenColumn("state").data[1] = 2
    /\ GivenColumn("state").data[2] = 1
    /\ ret.val.tag = "error"
    /\ ret.val.kind = "InconsistentNesting"

SupportedKinds  == {"real", "integer", "string", "factor", "date"}
SupportedDTypes == {"Float32", "Float64", "Int32", "Int64", "String", "Date"}

Converted == conv.tag # "none" /\ conv.out.tag # "none"

\* C7: in both directions a column of a type outside floating point, integer,
\* string / categorical and date makes the conversion fail with the
\* unsupported-column-type error, and no column is given a fallback value.
C7_UnsupportedTypeFails ==
    Converted =>
        /\ (/\ conv.dir = "from_robj"
            /\ conv.arg.is_frame
            /\ \E c \in DOMAIN conv.arg.cols : conv.arg.cols[c].kind \notin SupportedKinds)
           => (conv.out.tag = "error" /\ conv.out.kind = "Unsupported column type")
        /\ (/\ conv.dir = "to_robj"
            /\ \E c \in DOMAIN conv.arg.cols : conv.arg.cols[c].dtype \notin SupportedDTypes)
           => (conv.out.tag = "error" /\ conv.out.kind = "Unsupported column type")

\* the combinations observed in the input and their projections
Observed == {Engine.table[i].key : i \in DOMAIN Engine.table}

Projections ==
    {[h |-> SubSeq(k.h, 1, d),
      g |-> [i \in DOMAIN k.g |-> IF i \in sub THEN k.g[i] ELSE Total]] :
        k \in Observed,
        d \in 0..Len(Engine.spec.hierarchy),
        sub \in SUBSET (DOMAIN Engine.spec.groups)}

\* C8: the nodes are exactly the distinct projections of the observed bottom
\* keys onto a hierarchy prefix and a subset of the groups: no node without a
\* matching bottom key (no all-zero matrix row), no node twice, and n_series()
\* is the number of projections.
C8_NodesAreProjections ==
    hts.tag = "Hts" =>
        /\ Range(Engine.nodes) = Projections
        /\ \A r1, r2 \in DOMAIN Engine.nodes :
              Engine.nodes[r1] = Engine.nodes[r2] => r1 = r2
        /\ \A r \in DOMAIN Engine.nodes :
              \E c \in DOMAIN Engine.bottom_keys : Engine.matrix[r][c] = 1
        /\ ret.op = "n_series" => ret.val = Cardinality(Projections)

\* n_series() has been returned for two bottom keys under the same state, whose
\* projections coincide above the city
C8_Witness ==
    /\ hts.tag = "Hts"
    /\ ret.op = "n_series"
    /\ Len(Engine.spec.hierarchy) = 2
    /\ Len(Engine.bottom_keys) = 2
    /\ Engine.bottom_keys[1].h[1] = Engine.bottom_keys[2].h[1]
    /\ ret.val < 2 * Cardinality({n \in Projections : IsPrefix(n.h, Engine.bottom_keys[1].h)
                                      /\ FixedGroupsAgree(n, Engine.bottom_keys[1])})

\* C9: once the engine is built no call changes it: the bottom keys, the nodes,
\* the matrix and the table a query reads are those of construction.
C9_EngineReadOnly == [][hts.tag = "Hts" => hts' = hts]_vars

\* a query has answered from a built engine
C9_Witness ==
    /\ hts.tag = "Hts"
    /\ ret.op = "print"
    /\ Len(Engine.table) = 2

\* the rows of worker p's buffer are those of its own period
OwnRows(p) ==
    \A k \in DOMAIN par.buf[p] : par.buf[p][k].period = Engine.periods[p]

\* C10: the workers leave the engine untouched, each stores rows of its own
\* period only, and the merged result holds one row per (node, period) and is
\* the result of the sequential aggregation, whatever the order of completion.
C10_ParallelIsSequential ==
    /\ [](par.tag \in {"running", "merged"} =>
            \A p \in DOMAIN par.buf :
                /\ OwnRows(p)
                /\ par.buf[p] # <<>> => par.pc[p] = "done")
    /\ [](par.tag = "merged" =>
            /\ ret.val = aggregated_series(hts)
            /\ \A r \in DOMAIN Engine.nodes : \A p \in DOMAIN Engine.periods :
                  Cardinality(RowsFor(ret.val, Engine.nodes[r], Engine.periods[p])) = 1)
    /\ [][hts' = hts]_vars

\* the merge has run after the worker of the second period finished first
C10_Witness ==
    /\ par.tag = "merged"
    /\ par.finished = <<2, 1>>
    /\ Len(Engine.nodes) > 1

====
